---- MODULE Spec2Model ----
(***************************************************************************)
(* Model of mirage/yaml/write_observationlist.py, function write_yaml:     *)
(* the conversion of an APT proposal (observation nodes plus the flattened *)
(* exposure table of the reader) into the lines of an observation list.    *)
(*                                                                         *)
(* write_yaml is one synchronous function.  The model follows its control  *)
(* position (pc) through the stages of the source: selection of the        *)
(* observation nodes, reading of the exposure table, instrument dispatch,  *)
(* aggregation by observation id, validation, rendering and writing.       *)
(* The arguments and the file contents are immutable during a call, so     *)
(* each is drawn at the stage where the code first reads it.               *)
(*                                                                         *)
(* Text is modelled as sequences of one-character strings where the code   *)
(* inspects characters (labels), and as atoms elsewhere.  A rendered line  *)
(* is a record [ind, key, num, val]: indentation in columns, the key, the  *)
(* number formatted into the key (0 if none) and the value as a sequence   *)
(* of text atoms.                                                          *)
(***************************************************************************)
EXTENDS Integers, Sequences, FiniteSets, TLC

VARIABLES
    pc,               \* position in write_yaml
    run,              \* 1 for the first call, 2 for a repeated call on the same inputs
    exc,              \* exception that ended the call, "None" while none
    obs_results,      \* observation nodes of the proposal, in document order
    observations,     \* selected nodes
    i_observations,   \* 0-based positions of the selected nodes in obs_results
    obs_names,        \* derived names of the selected nodes
    instruments,      \* instrument codes of the selected nodes
    xml_table,        \* flattened exposure table of the reader, one record per row
    catalog_arg,      \* argument catalog_files as passed: a str or a list
    catalog_files,    \* catalog_files after normalisation and broadcast
    ps_cat_sw,        \* argument ps_cat_sw: None (the default) or a list
    ps_cat_lw,        \* argument ps_cat_lw: None (the default) or a list
    sw_filters,       \* dict: observation id -> short filters   (dichroic family)
    lw_filters,       \* dict: observation id -> long filters    (dichroic family)
    filters,          \* dict: observation id -> pupil filters   (NIRISS)
    notices,          \* ids named by the "Multiple filters" notices, in print order
    all_param_lengths,\* list of collection lengths, Unbound until assigned
    write,            \* rendered lines
    file_opened,      \* TRUE once yaml_file was opened for writing
    yaml_file,        \* content of the output file
    prev_output,      \* content the first call left in the output file
    prev_order,       \* order in which the first call iterated the observation ids
    label,            \* name derivation on its own: text of the Label element
    name              \* name derivation on its own: the derived name

vars == << pc, run, exc, obs_results, observations, i_observations, obs_names,
           instruments, xml_table, catalog_arg, catalog_files, ps_cat_sw,
           ps_cat_lw, sw_filters, lw_filters, filters, notices,
           all_param_lengths, write, file_opened, yaml_file, prev_output,
           prev_order, label, name >>

-----------------------------------------------------------------------------
(* Bounds of the model *)

MaxObs == 2

MaxRows == 2

MaxCat == 2

MaxLabelLen == 4

-----------------------------------------------------------------------------
(* Generic helpers *)

Range(s) == { s[i] : i \in 1..Len(s) }

SeqsUpTo(S, n) == UNION { [1..k -> S] : k \in 0..n }

Perms(S) == { f \in [1..Cardinality(S) -> S] :
                \A i, j \in 1..Cardinality(S) : i # j => f[i] # f[j] }

-----------------------------------------------------------------------------
(* Name derivation, lines 66-70 *)

HasParenOpen(l) == \E i \in 1..(Len(l) - 1) : l[i] = " " /\ l[i + 1] = "("

HasParenClose(l) == \E i \in 1..Len(l) : l[i] = ")"

\* a match of the pattern r' \(|\)' starts at position p
SplitMatchAt(l, p) ==
    \/ l[p] = ")"
    \/ p < Len(l) /\ l[p] = " " /\ l[p + 1] = "("

\* re.split(r' \(|\)', label)[0]: the text before the leftmost match
SplitFirst(l) ==
    IF \E p \in 1..Len(l) : SplitMatchAt(l, p)
    THEN LET p == CHOOSE q \in 1..Len(l) :
                     /\ SplitMatchAt(l, q)
                     /\ \A r \in 1..(q - 1) : ~SplitMatchAt(l, r)
         IN  SubSeq(l, 1, p - 1)
    ELSE l

DeriveName(l) ==
    IF HasParenOpen(l) /\ HasParenClose(l) THEN SplitFirst(l) ELSE l

-----------------------------------------------------------------------------
(* Observation selector, lines 54-72 *)

Supported == { "NIRCAM", "WFSC", "NIRISS", "FGS" }

\* indices (1-based) of the nodes the loop keeps, in order
KeptIndices(nodes) ==
    SelectSeq([i \in 1..Len(nodes) |-> i],
              LAMBDA i : nodes[i].Instrument \in Supported)

SelObservations(nodes) ==
    [j \in 1..Len(KeptIndices(nodes)) |-> nodes[KeptIndices(nodes)[j]]]

\* enumerate() counts from 0
SelIObservations(nodes) ==
    [j \in 1..Len(KeptIndices(nodes)) |-> KeptIndices(nodes)[j] - 1]

SelObsNames(nodes) ==
    [j \in 1..Len(KeptIndices(nodes)) |->
        DeriveName(nodes[KeptIndices(nodes)[j]].Label)]

SelInstruments(nodes) ==
    [j \in 1..Len(KeptIndices(nodes)) |-> nodes[KeptIndices(nodes)[j]].Instrument]

-----------------------------------------------------------------------------
(* Inputs *)

Chars == { "a", " ", "(", ")" }

LabelInputs == SeqsUpTo(Chars, MaxLabelLen)

NodePool ==
    { [Instrument |-> "NIRCAM", Label |-> <<"O", "1", " ", "(", "c", ")">>],
      [Instrument |-> "WFSC",   Label |-> <<"W", " ", "(", "a", ")", "b">>],
      [Instrument |-> "NIRISS", Label |-> <<"O", "2">>],
      [Instrument |-> "MIRI",   Label |-> <<"M", "3">>],
      [Instrument |-> "FGS",    Label |-> <<>>] }

\* a kept node whose Label element has no text: .text is None at line 67
HasEmptyLabel(nodes) ==
    \E i \in 1..Len(nodes) :
        nodes[i].Instrument \in Supported /\ nodes[i].Label = <<>>

\* position of the node at which line 68 raises: the first such node
FirstEmptyLabel(nodes) ==
    CHOOSE i \in 1..Len(nodes) :
        /\ nodes[i].Instrument \in Supported /\ nodes[i].Label = <<>>
        /\ ~HasEmptyLabel(SubSeq(nodes, 1, i - 1))

NodeLists == SeqsUpTo(NodePool, MaxObs)

Unbound == << -1 >>

\* exposure rows the reader can produce: instrument, filters, observation id
DichroicRows ==
    { [Instrument |-> "NIRCAM", ShortFilter |-> c[1], LongFilter |-> c[2],
       PupilWheel |-> "CLEAR", ObservationID |-> id] :
         c \in { <<"F070W", "F277W">>, <<"F070W", "F444W">>, <<"F150W", "F277W">> },
         id \in { 1, 2 } }

NirissRows ==
    { [Instrument |-> "NIRISS", ShortFilter |-> "NONE", LongFilter |-> "NONE",
       PupilWheel |-> p, ObservationID |-> id] :
         p \in { "CLEARP", "NRM" }, id \in { 0, 1 } }

WfscRows ==
    { [Instrument |-> "WFSC", ShortFilter |-> "F150W", LongFilter |-> "F444W",
       PupilWheel |-> "CLEAR", ObservationID |-> 1] }

FgsRows ==
    { [Instrument |-> "FGS", ShortFilter |-> "NONE", LongFilter |-> "NONE",
       PupilWheel |-> "NONE", ObservationID |-> id] : id \in { 0, 1 } }

OtherRows ==
    { [Instrument |-> "MIRI", ShortFilter |-> "NONE", LongFilter |-> "NONE",
       PupilWheel |-> "NONE", ObservationID |-> 1] }

RowPool == DichroicRows \cup WfscRows \cup NirissRows \cup FgsRows \cup OtherRows

Tables == SeqsUpTo(RowPool, MaxRows)

\* a list of n distinct catalog paths
CatList(prefix, n) == [i \in 1..n |-> prefix \o ToString(i)]

\* catalog_files as the caller passes it: one path as a str, or a list of paths
CatalogArgs ==
    { [is_str |-> TRUE, items |-> CatList("cat", 1)] } \cup
    { [is_str |-> FALSE, items |-> CatList("cat", n)] : n \in 0..MaxCat }

NoCatalogArg == [is_str |-> FALSE, items |-> <<>>]

\* ps_cat_sw=None, ps_cat_lw=None: the defaults of line 24
NotPassed == [is_none |-> TRUE, items |-> <<>>]

\* ps_cat_sw or ps_cat_lw as the caller passes it: omitted, or a list of paths
PsCatArgs(prefix) ==
    { NotPassed } \cup
    { [is_none |-> FALSE, items |-> CatList(prefix, n)] : n \in 0..MaxCat }

-----------------------------------------------------------------------------
(* The exposure table as columns, lines 78-82 and 113-116 *)

Column(table, field) == [i \in 1..Len(table) |-> table[i][field]]

\* np.unique(xml_table['Instrument'])
UsedInstruments(table) == Range(Column(table, "Instrument"))

\* used_instruments[0], read only when there is exactly one distinct value
UsedFirst(table) == CHOOSE x \in UsedInstruments(table) : TRUE

Dichroic == { "NIRCAM", "WFSC" }

\* line 91 with the threshold one too high
IsMixedAboveTwo(table) == Cardinality(UsedInstruments(table)) > 2

\* more than one instrument in the table: line 91
IsMixed(table) == Cardinality(UsedInstruments(table)) > 1

-----------------------------------------------------------------------------
(* Aggregation by observation id, lines 118-125 and 153-160 *)

\* a dict is the sequence of its items [k, v] in insertion order
DictKeys(d) == { d[i].k : i \in 1..Len(d) }

HasKey(d, key) == key \in DictKeys(d)

\* subscription that takes the key for a position in iteration order
GetNth(d, key) == d[IF key \in 1..Len(d) THEN key ELSE Len(d)].v

\* d[key] for a key that is present
Get(d, key) == d[CHOOSE i \in 1..Len(d) : d[i].k = key].v

\* current_obs_indices = [i == i_obs_all for i in observation_ids]
ObsMask(ids, id) == [i \in 1..Len(ids) |-> ids[i] = id]

\* column[mask]: the entries where the mask is True, in row order
Masked(col, mask) ==
    LET idx == SelectSeq([i \in 1..Len(col) |-> i], LAMBDA i : mask[i])
    IN  [j \in 1..Len(idx) |-> col[idx[j]]]

\* the dict the loop builds when set(observation_ids) is iterated in `order`
GroupBy(col, ids, order) ==
    [j \in 1..Len(order) |->
        [k |-> order[j], v |-> Masked(col, ObsMask(ids, order[j]))]]

\* the condition of the notice of lines 121 and 156, on the checked column
MultipleFilters(col, ids, id) ==
    Cardinality(Range(Masked(col, ObsMask(ids, id)))) > 1

\* ids named by the notices, in the order they are printed
Notices(col, ids, order) ==
    SelectSeq(order, LAMBDA id : MultipleFilters(col, ids, id))

\* catalog_files after lines 47-48
Normalise(arg) == arg.items

\* lines 163-164
Broadcast(cats, n) ==
    IF Len(cats) = 1 THEN [i \in 1..n |-> cats[1]] ELSE cats

\* line 171
LengthsDiffer(lengths) == Cardinality(Range(lengths)) > 1

-----------------------------------------------------------------------------
(* Rendering, lines 176-249 *)

Line(ind, key, num, val) == [ind |-> ind, key |-> key, num |-> num, val |-> val]

\* lines 176-178; the last comment line ends in a blank line
HeaderComment ==
    << Line(0, "#", 0, <<"Observation list created by write_observationlist.py  in">>),
       Line(0, "#", 0, <<"mirage/yaml. Note: all values except filters and">>),
       Line(0, "#", 0, <<"observation names are default.", "\n">>) >>

\* lines 97-109 and 134-145
date == "2019-07-04"

PAV3 == "0."

BackgroundRate_sw == "0.5"

BackgroundRate_lw == "1.2"

BackgroundRate == "0.5"

\* GalaxyCatalog .. MovingTargetToTrack at indentation ind
Placeholders(ind) ==
    << Line(ind, "GalaxyCatalog", 0, <<"None">>),
       Line(ind, "ExtendedCatalog", 0, <<"None">>),
       Line(ind, "ExtendedScale", 0, <<"1.0">>),
       Line(ind, "ExtendedCenter", 0, <<"1024,1024">>),
       Line(ind, "MovingTargetList", 0, <<"None">>),
       Line(ind, "MovingTargetSersic", 0, <<"None">>),
       Line(ind, "MovingTargetExtended", 0, <<"None">>),
       Line(ind, "MovingTargetConvolveExtended", 0, <<"True">>),
       Line(ind, "MovingTargetToTrack", 0, <<"None">>) >>

\* lines 183-188 and 225-230
ObsHeader(obs_number, obs_name) ==
    << Line(0, "Observation", obs_number, <<>>),
       Line(2, "Name", 0, <<"'">> \o obs_name \o <<"'">>),
       Line(2, "Date", 0, <<date>>),
       Line(2, "PAV3", 0, <<PAV3>>) >>

\* lines 192-220, one (sw_filt, lw_filt) pair of zip(); i_filt counts from 0
FilterConfig(i_filt, sw_filt, lw_filt, cat_sw, cat_lw) ==
    << Line(2, "FilterConfig", i_filt + 1, <<>>),
       Line(4, "SW", 0, <<>>),
       Line(6, "Filter", 0, <<sw_filt>>),
       Line(6, "PointSourceCatalog", 0, <<cat_sw>>) >>
    \o Placeholders(6) \o
    << Line(6, "BackgroundRate", 0, <<BackgroundRate_sw>>),
       Line(4, "LW", 0, <<>>),
       Line(6, "Filter", 0, <<lw_filt>>),
       Line(6, "PointSourceCatalog", 0, <<cat_lw>>) >>
    \o Placeholders(6) \o
    << Line(6, "BackgroundRate", 0, <<BackgroundRate_lw, "\n">>) >>

\* lines 234-249, one filter of the observation
FlatFilter(filt, cat) ==
    << Line(2, "Filter", 0, <<filt>>),
       Line(2, "PointSourceCatalog", 0, <<cat>>) >>
    \o Placeholders(2) \o
    << Line(2, "BackgroundRate", 0, <<BackgroundRate>>) >>

RECURSIVE FilterConfigs(_, _, _, _, _)
\* the loop of lines 190-220 over zip(sw, lw), from pair number k (1-based)
FilterConfigs(k, sw, lw, cat_sw, cat_lw) ==
    IF k > Len(sw) \/ k > Len(lw) THEN <<>>
    ELSE FilterConfig(k - 1, sw[k], lw[k], cat_sw, cat_lw)
         \o FilterConfigs(k + 1, sw, lw, cat_sw, cat_lw)

RECURSIVE FlatFilters(_, _, _)
\* the loop of lines 233-249, from filter number k (1-based)
FlatFilters(k, fs, cat) ==
    IF k > Len(fs) THEN <<>>
    ELSE FlatFilter(fs[k], cat) \o FlatFilters(k + 1, fs, cat)

\* the key of the group looked up for the observation at list index i_obs
\* (0-based) with number obs_number: line 190
DichroicKey(i_obs, obs_number) == obs_number

\* line 233
SingleKey(i_obs, obs_number) == i_obs

RECURSIVE RenderDichroic(_, _, _, _, _, _, _, _)
\* lines 181-220 from list index i_obs (0-based); a missing key ends the
\* loop with KeyError after the header of that observation was appended
RenderDichroic(i_obs, acc, iobs, names, sw_d, lw_d, cat_sw, cat_lw) ==
    IF i_obs >= Len(iobs) THEN [write |-> acc, exc |-> "None"]
    ELSE LET obs_number == iobs[i_obs + 1] + 1
             head == acc \o ObsHeader(obs_number, names[i_obs + 1])
             key == DichroicKey(i_obs, obs_number)
         IN  IF ~HasKey(sw_d, key) \/ ~HasKey(lw_d, key)
             THEN [write |-> head, exc |-> "KeyError"]
             ELSE RenderDichroic(i_obs + 1,
                     head \o FilterConfigs(1, Get(sw_d, key), Get(lw_d, key),
                                           cat_sw[i_obs + 1], cat_lw[i_obs + 1]),
                     iobs, names, sw_d, lw_d, cat_sw, cat_lw)

RECURSIVE RenderSingle(_, _, _, _, _, _)
\* lines 223-249 from list index i_obs (0-based)
RenderSingle(i_obs, acc, iobs, names, f_d, cats) ==
    IF i_obs >= Len(iobs) THEN [write |-> acc, exc |-> "None"]
    ELSE LET obs_number == iobs[i_obs + 1] + 1
             head == acc \o ObsHeader(obs_number, names[i_obs + 1])
             key == SingleKey(i_obs, obs_number)
         IN  IF ~HasKey(f_d, key)
             THEN [write |-> head, exc |-> "KeyError"]
             ELSE RenderSingle(i_obs + 1,
                     head \o FlatFilters(1, Get(f_d, key), cats[i_obs + 1]),
                     iobs, names, f_d, cats)

-----------------------------------------------------------------------------
(* write_yaml, stage by stage *)

Init ==
    /\ pc = "start"
    /\ run = 1
    /\ exc = "None"
    /\ obs_results = <<>>
    /\ observations = <<>>
    /\ i_observations = <<>>
    /\ obs_names = <<>>
    /\ instruments = <<>>
    /\ xml_table = <<>>
    /\ catalog_arg = NoCatalogArg
    /\ catalog_files = <<>>
    /\ ps_cat_sw = NotPassed
    /\ ps_cat_lw = NotPassed
    /\ sw_filters = <<>>
    /\ lw_filters = <<>>
    /\ filters = <<>>
    /\ notices = <<>>
    /\ all_param_lengths = Unbound
    /\ write = <<>>
    /\ file_opened = FALSE
    /\ yaml_file = <<>>
    /\ prev_output = <<>>
    /\ prev_order = <<>>
    /\ label = <<>>
    /\ name = <<>>

Raise(e) ==
    /\ exc' = e
    /\ pc' = "error"

\* lines 24-72: the call binds its arguments, lines 47-48 turn a str
\* catalog_files into a list, and the loop selects the observations. The test
\* of line 68 on a label that is None raises TypeError after lines 62-64
\* appended that node, so the lists keep what the loop had appended
Select ==
    /\ pc = "start"
    /\ \E nodes \in (IF run = 1 THEN NodeLists ELSE { obs_results }),
          arg \in (IF run = 1 THEN CatalogArgs ELSE { catalog_arg }),
          a_sw \in (IF run = 1 THEN PsCatArgs("sw") ELSE { ps_cat_sw }),
          a_lw \in (IF run = 1 THEN PsCatArgs("lw") ELSE { ps_cat_lw }) :
         /\ obs_results' = nodes
         /\ catalog_arg' = arg
         /\ catalog_files' = Normalise(arg)
         /\ ps_cat_sw' = a_sw
         /\ ps_cat_lw' = a_lw
         /\ IF HasEmptyLabel(nodes)
            THEN LET upto == SubSeq(nodes, 1, FirstEmptyLabel(nodes))
                     before == SubSeq(nodes, 1, FirstEmptyLabel(nodes) - 1)
                 IN  /\ observations' = SelObservations(upto)
                     /\ i_observations' = SelIObservations(upto)
                     /\ instruments' = SelInstruments(upto)
                     /\ obs_names' = SelObsNames(before)
                     /\ Raise("TypeError")
            ELSE /\ observations' = SelObservations(nodes)
                 /\ i_observations' = SelIObservations(nodes)
                 /\ obs_names' = SelObsNames(nodes)
                 /\ instruments' = SelInstruments(nodes)
                 /\ pc' = "selected"
                 /\ exc' = exc
    /\ UNCHANGED << run, xml_table, sw_filters, lw_filters, filters, notices,
                    all_param_lengths, write, file_opened, yaml_file,
                    prev_output, prev_order, label, name >>

\* lines 74-87: the reader's table
ReadXml ==
    /\ pc = "selected"
    /\ \E table \in (IF run = 1 THEN Tables ELSE { xml_table }) :
         xml_table' = table
    /\ pc' = "read"
    /\ UNCHANGED << run, exc, obs_results, observations, i_observations,
                    obs_names, instruments, catalog_arg, catalog_files,
                    ps_cat_sw, ps_cat_lw, sw_filters, lw_filters, filters,
                    notices, all_param_lengths, write, file_opened, yaml_file,
                    prev_output, prev_order, label, name >>

\* lines 91-93
RaiseNotImplemented ==
    /\ pc = "read"
    /\ IsMixed(xml_table)
    /\ Raise("NotImplementedError")
    /\ UNCHANGED << run, obs_results, observations, i_observations, obs_names,
                    instruments, xml_table, catalog_arg, catalog_files,
                    ps_cat_sw, ps_cat_lw, sw_filters, lw_filters, filters,
                    notices, all_param_lengths, write, file_opened, yaml_file,
                    prev_output, prev_order, label, name >>

\* line 95 on an empty table: used_instruments[0] does not exist
RaiseIndexError ==
    /\ pc = "read"
    /\ ~IsMixed(xml_table)
    /\ UsedInstruments(xml_table) = {}
    /\ Raise("IndexError")
    /\ UNCHANGED << run, obs_results, observations, i_observations, obs_names,
                    instruments, xml_table, catalog_arg, catalog_files,
                    ps_cat_sw, ps_cat_lw, sw_filters, lw_filters, filters,
                    notices, all_param_lengths, write, file_opened, yaml_file,
                    prev_output, prev_order, label, name >>

\* lines 95-130: NIRCAM and WFSC; len() of an omitted catalog list (None)
\* raises TypeError at line 128, after the dicts were built
AggregateDichroic ==
    /\ pc = "read"
    /\ ~IsMixed(xml_table)
    /\ UsedInstruments(xml_table) # {}
    /\ UsedFirst(xml_table) \in Dichroic
    /\ \E order \in Perms(Range(Column(xml_table, "ObservationID"))) :
         LET ids == Column(xml_table, "ObservationID")
             sw == GroupBy(Column(xml_table, "ShortFilter"), ids, order)
             lw == GroupBy(Column(xml_table, "LongFilter"), ids, order)
         IN  /\ sw_filters' = sw
             /\ lw_filters' = lw
             /\ notices' = Notices(Column(xml_table, "ShortFilter"), ids, order)
             /\ IF ps_cat_sw.is_none \/ ps_cat_lw.is_none
                THEN /\ Raise("TypeError")
                     /\ UNCHANGED all_param_lengths
                ELSE /\ all_param_lengths' =
                          << Len(ps_cat_sw.items), Len(ps_cat_lw.items),
                             Len(sw), Len(lw), Len(observations),
                             Len(i_observations), Len(obs_names) >>
                     /\ pc' = "aggregated"
                     /\ exc' = exc
    /\ UNCHANGED << run, obs_results, observations, i_observations,
                    obs_names, instruments, xml_table, catalog_arg,
                    catalog_files, ps_cat_sw, ps_cat_lw, filters, write,
                    file_opened, yaml_file, prev_output, prev_order, label,
                    name >>

\* lines 132-169: NIRISS
AggregateNiriss ==
    /\ pc = "read"
    /\ ~IsMixed(xml_table)
    /\ UsedInstruments(xml_table) # {}
    /\ UsedFirst(xml_table) \notin Dichroic
    /\ UsedFirst(xml_table) \in { "NIRISS" }
    /\ \E order \in Perms(Range(Column(xml_table, "ObservationID"))) :
         LET ids == Column(xml_table, "ObservationID")
             f == GroupBy(Column(xml_table, "PupilWheel"), ids, order)
             cats == Broadcast(catalog_files, Len(observations))
         IN  /\ catalog_files' = cats
             /\ filters' = f
             /\ notices' = Notices(Column(xml_table, "PupilWheel"), ids, order)
             /\ all_param_lengths' =
                  << Len(cats), Len(f), Len(observations),
                     Len(i_observations), Len(obs_names) >>
    /\ pc' = "aggregated"
    /\ UNCHANGED << run, exc, obs_results, observations, i_observations,
                    obs_names, instruments, xml_table, catalog_arg, ps_cat_sw,
                    ps_cat_lw, sw_filters, lw_filters, write, file_opened,
                    yaml_file, prev_output, prev_order, label, name >>

\* lines 95 and 132 both false (FGS or any other code): nothing is assigned
NoFamilyBranch ==
    /\ pc = "read"
    /\ ~IsMixed(xml_table)
    /\ UsedInstruments(xml_table) # {}
    /\ UsedFirst(xml_table) \notin Dichroic
    /\ UsedFirst(xml_table) \notin { "NIRISS" }
    /\ pc' = "aggregated"
    /\ UNCHANGED << run, exc, obs_results, observations, i_observations,
                    obs_names, instruments, xml_table, catalog_arg,
                    catalog_files, ps_cat_sw, ps_cat_lw, sw_filters, lw_filters,
                    filters, notices, all_param_lengths, write, file_opened,
                    yaml_file, prev_output, prev_order, label, name >>

\* lines 171-174
Validate ==
    /\ pc = "aggregated"
    /\ IF all_param_lengths = Unbound
       THEN Raise("UnboundLocalError")
       ELSE IF LengthsDiffer(all_param_lengths)
            THEN Raise("ValueError")
            ELSE pc' = "validated" /\ exc' = exc
    /\ UNCHANGED << run, obs_results, observations, i_observations, obs_names,
                    instruments, xml_table, catalog_arg, catalog_files,
                    ps_cat_sw, ps_cat_lw, sw_filters, lw_filters, filters,
                    notices, all_param_lengths, write, file_opened, yaml_file,
                    prev_output, prev_order, label, name >>

\* what lines 176-249 leave in `write`, and the exception that ends them
Rendered ==
    IF UsedFirst(xml_table) \in Dichroic
    THEN RenderDichroic(0, HeaderComment, i_observations, obs_names,
                        sw_filters, lw_filters, ps_cat_sw.items,
                        ps_cat_lw.items)
    ELSE IF UsedFirst(xml_table) \in { "NIRISS", "FGS" }
         THEN RenderSingle(0, HeaderComment, i_observations, obs_names,
                           filters, catalog_files)
         ELSE [write |-> HeaderComment, exc |-> "None"]

\* lines 176-249
Render ==
    /\ pc = "validated"
    /\ write' = Rendered.write
    /\ exc' = Rendered.exc
    /\ pc' = IF Rendered.exc = "None" THEN "rendered" ELSE "error"
    /\ UNCHANGED << run, obs_results, observations, i_observations, obs_names,
                    instruments, xml_table, catalog_arg, catalog_files,
                    ps_cat_sw, ps_cat_lw, sw_filters, lw_filters, filters,
                    notices, all_param_lengths, file_opened, yaml_file,
                    prev_output, prev_order, label, name >>

\* lines 251-255
WriteFile ==
    /\ pc = "rendered"
    /\ file_opened' = TRUE
    /\ yaml_file' = write
    /\ pc' = "written"
    /\ UNCHANGED << run, exc, obs_results, observations, i_observations,
                    obs_names, instruments, xml_table, catalog_arg,
                    catalog_files, ps_cat_sw, ps_cat_lw, sw_filters, lw_filters,
                    filters, notices, all_param_lengths, write, prev_output, prev_order,
                    label, name >>

\* a second call of write_yaml with the arguments and files of the first
CallAgain ==
    /\ pc = "written"
    /\ run = 1
    /\ run' = 2
    /\ prev_output' = yaml_file
    /\ prev_order' = [i \in 1..Len(sw_filters \o filters) |-> (sw_filters \o filters)[i].k]
    /\ pc' = "start"
    /\ observations' = <<>>
    /\ i_observations' = <<>>
    /\ obs_names' = <<>>
    /\ instruments' = <<>>
    /\ catalog_files' = <<>>
    /\ sw_filters' = <<>>
    /\ lw_filters' = <<>>
    /\ filters' = <<>>
    /\ notices' = <<>>
    /\ all_param_lengths' = Unbound
    /\ write' = <<>>
    /\ file_opened' = FALSE
    /\ UNCHANGED << exc, obs_results, xml_table, catalog_arg, ps_cat_sw,
                    ps_cat_lw, yaml_file, label, name >>

Next ==
    \/ Select
    \/ ReadXml
    \/ RaiseNotImplemented
    \/ RaiseIndexError
    \/ AggregateDichroic
    \/ AggregateNiriss
    \/ NoFamilyBranch
    \/ Validate
    \/ Render
    \/ WriteFile
    \/ CallAgain

Spec == Init /\ [][Next]_vars

-----------------------------------------------------------------------------
(* Name derivation as a function of the label alone *)

InitName ==
    /\ pc = "name_start"
    /\ label \in LabelInputs
    /\ name = <<>>
    /\ run = 1
    /\ exc = "None"
    /\ obs_results = <<>>
    /\ observations = <<>>
    /\ i_observations = <<>>
    /\ obs_names = <<>>
    /\ instruments = <<>>
    /\ xml_table = <<>>
    /\ catalog_arg = [is_str |-> FALSE, items |-> <<>>]
    /\ catalog_files = <<>>
    /\ ps_cat_sw = NotPassed
    /\ ps_cat_lw = NotPassed
    /\ sw_filters = <<>>
    /\ lw_filters = <<>>
    /\ filters = <<>>
    /\ notices = <<>>
    /\ all_param_lengths = Unbound
    /\ write = <<>>
    /\ file_opened = FALSE
    /\ yaml_file = <<>>
    /\ prev_output = <<>>
    /\ prev_order = <<>>

\* lines 67-70 on one label; a Label element without text reads as None
\* and the test of line 68 raises TypeError
ApplyDeriveName ==
    /\ pc = "name_start"
    /\ IF label = <<>>
       THEN /\ Raise("TypeError")
            /\ name' = name
       ELSE /\ name' = DeriveName(label)
            /\ pc' = "name_done"
            /\ exc' = exc
    /\ UNCHANGED << run, obs_results, observations, i_observations,
                    obs_names, instruments, xml_table, catalog_arg,
                    catalog_files, ps_cat_sw, ps_cat_lw, sw_filters, lw_filters,
                    filters, notices, all_param_lengths, write, file_opened,
                    yaml_file, prev_output, prev_order, label >>

NextName == ApplyDeriveName

SpecName == InitName /\ [][NextName]_vars

-----------------------------------------------------------------------------
(* Vocabulary of the properties *)

Done == pc \in { "written", "error" }

TableInstruments == { xml_table[i].Instrument : i \in 1..Len(xml_table) }

TableIds == { xml_table[i].ObservationID : i \in 1..Len(xml_table) }

SingleInstrument == Cardinality(TableInstruments) = 1

NumSelected ==
    Cardinality({ i \in 1..Len(obs_results) : obs_results[i].Instrument \in Supported })

\* rows of the table with the given observation id, in row order
RowsOf(id) == SelectSeq(xml_table, LAMBDA r : r.ObservationID = id)

RECURSIVE Flatten(_)
Flatten(ss) == IF ss = <<>> THEN <<>> ELSE Head(ss) \o Flatten(Tail(ss))

\* the numbers of the Observation<N> blocks of a document, in order
ObsNumbers(doc) ==
    LET s == SelectSeq(doc, LAMBDA ln : ln.key = "Observation")
    IN  [i \in 1..Len(s) |-> s[i].num]

\* the caller passed the catalog lists the active schema reads
CatalogsPassed ==
    TableInstruments \subseteq Dichroic => ~ps_cat_sw.is_none /\ ~ps_cat_lw.is_none

\* the per-observation collections of the active schema, by length
SchemaLengths ==
    IF TableInstruments \subseteq Dichroic
    THEN << Len(ps_cat_sw.items), Len(ps_cat_lw.items), Cardinality(TableIds),
            NumSelected >>
    ELSE << (IF Len(catalog_arg.items) = 1 THEN NumSelected
                                           ELSE Len(catalog_arg.items)),
            Cardinality(TableIds), NumSelected >>

LengthsAgree == Cardinality(Range(SchemaLengths)) = 1

ValidationPassed ==
    /\ all_param_lengths # Unbound
    /\ Cardinality(Range(all_param_lengths)) = 1

-----------------------------------------------------------------------------
(* Properties *)

\* C1: whenever the per-observation collections of the active schema
\* (selected observations, names, positions, grouped filters, catalog inputs)
\* do not all have the same length, the call ends with the cardinality
\* error (ValueError) and the output file is never opened or written.
C1_MismatchIsCardinalityError ==
    ( /\ Done
      /\ run = 1
      /\ SingleInstrument
      /\ TableInstruments \subseteq Supported
      /\ CatalogsPassed
      /\ ~LengthsAgree )
    => ( exc = "ValueError" /\ ~file_opened /\ yaml_file = <<>> )

\* C2: a table with more than one distinct instrument ends the call with
\* NotImplementedError before any grouping by observation id (no dict, no
\* notice, no length list exists) and the output file is not written.
C2_MixedFailsBeforeGrouping ==
    ( /\ Cardinality(TableInstruments) > 1
      /\ pc \in { "aggregated", "validated", "rendered", "written", "error" } )
    => ( /\ pc = "error"
         /\ exc = "NotImplementedError"
         /\ sw_filters = <<>> /\ lw_filters = <<>> /\ filters = <<>>
         /\ notices = <<>>
         /\ all_param_lengths = Unbound
         /\ write = <<>>
         /\ ~file_opened /\ yaml_file = <<>> )

C2_Witness ==
    /\ pc = "error"
    /\ exc = "NotImplementedError"
    /\ { "NIRCAM", "NIRISS" } \subseteq TableInstruments
    /\ Len(observations) > 0

\* C3: for every valid single-instrument proposal the document holds one
\* Observation<N> block per selected observation, in selected order, with
\* N = 1 + position in the unfiltered list.
C3_OneBlockPerSelected ==
    ( /\ Done
      /\ run = 1
      /\ SingleInstrument
      /\ TableInstruments \subseteq Supported
      /\ CatalogsPassed
      /\ LengthsAgree )
    => ( /\ pc = "written"
         /\ ObsNumbers(yaml_file) =
              SelectSeq([i \in 1..Len(obs_results) |-> i],
                        LAMBDA i : obs_results[i].Instrument \in Supported) )

\* C4: once validation has passed, rendering never fails on a missing key
\* or index, whatever the observation ids of the table are.
C4_NoMissingKeyAfterValidation ==
    ValidationPassed => exc # "KeyError"

C5_ExpectedBlock(i) ==
    LET number == SelIObservations(obs_results)[i] + 1
        rows == RowsOf(number)
    IN  ObsHeader(number, SelObsNames(obs_results)[i])
        \o Flatten([k \in 1..Len(rows) |->
                      FilterConfig(k - 1, rows[k].ShortFilter, rows[k].LongFilter,
                                   ps_cat_sw.items[i], ps_cat_lw.items[i])])

\* C5: dichroic family, validation passed: the block of the i-th selected
\* observation holds FilterConfig1..K for the K rows of its id, the k-th
\* with the short and long filter of the k-th row, ps_cat_sw[i] and
\* ps_cat_lw[i].
C5_DichroicBlocks ==
    ( /\ Done
      /\ run = 1
      /\ SingleInstrument
      /\ TableInstruments \subseteq Dichroic
      /\ ValidationPassed )
    => ( /\ pc = "written"
         /\ yaml_file = HeaderComment
              \o Flatten([i \in 1..NumSelected |-> C5_ExpectedBlock(i)]) )

\* C6: single-channel family (NIRISS or FGS), exactly one catalog path and
\* several selected observations: the conversion succeeds and every block
\* carries that path as PointSourceCatalog.
C6_SingleCatalogBroadcast ==
    ( /\ Done
      /\ run = 1
      /\ SingleInstrument
      /\ TableInstruments \subseteq { "NIRISS", "FGS" }
      /\ Len(catalog_arg.items) = 1
      /\ NumSelected >= 2
      /\ Cardinality(TableIds) = NumSelected )
    => ( /\ pc = "written"
         /\ Len(ObsNumbers(yaml_file)) = NumSelected
         /\ \A i \in 1..Len(yaml_file) :
              yaml_file[i].key = "PointSourceCatalog"
                => yaml_file[i].val = << catalog_arg.items[1] >> )

\* C8: a second call on identical inputs ends like the first and leaves
\* the same text in the output file, whatever the order in which the set
\* of observation ids is iterated.
C8_SameOutputOnRerun ==
    run = 2 => ( /\ pc # "error"
                 /\ pc = "written" => yaml_file = prev_output )

C8_Witness ==
    /\ run = 2
    /\ pc = "written"
    /\ Len(sw_filters) = 2
    /\ prev_order = << sw_filters[2].k, sw_filters[1].k >>
    /\ sw_filters[1].v # sw_filters[2].v
    /\ yaml_file # <<>>

C9_ExpectedBlock(i) ==
    LET number == SelIObservations(obs_results)[i] + 1
        rows == RowsOf(i - 1)
        cat == IF Len(catalog_arg.items) = 1 THEN catalog_arg.items[1]
                                             ELSE catalog_arg.items[i]
    IN  ObsHeader(number, SelObsNames(obs_results)[i])
        \o Flatten([k \in 1..Len(rows) |-> FlatFilter(rows[k].PupilWheel, cat)])

\* C9: single-channel family (NIRISS and FGS alike), validation passing:
\* the block of each selected observation holds one flat filter entry per
\* exposure row of its group, in row order, with its catalog path, and no
\* FilterConfig line.
C9_SingleChannelBlocks ==
    ( /\ Done
      /\ run = 1
      /\ SingleInstrument
      /\ TableInstruments \subseteq { "NIRISS", "FGS" }
      /\ LengthsAgree )
    => ( /\ pc = "written"
         /\ yaml_file = HeaderComment
              \o Flatten([i \in 1..NumSelected |-> C9_ExpectedBlock(i)]) )

C10_Channels ==
    IF TableInstruments \subseteq Dichroic THEN { "ShortFilter", "LongFilter" }
                                          ELSE { "PupilWheel" }

\* C10: after aggregation every observation id whose rows carry more than
\* one distinct filter on any channel is named by a notice, and the group
\* stored for every id is the full filter sequence of its rows.
C10_NoticePerInconsistentGroup ==
    ( \/ pc = "aggregated" /\ all_param_lengths # Unbound
      \/ pc = "error" /\ exc = "TypeError" /\ xml_table # <<>> )
    => \A id \in TableIds :
         /\ ( \E ch \in C10_Channels :
                Cardinality({ RowsOf(id)[k][ch] : k \in 1..Len(RowsOf(id)) }) > 1 )
            => id \in Range(notices)
         /\ IF TableInstruments \subseteq Dichroic
            THEN /\ Get(sw_filters, id) =
                      [k \in 1..Len(RowsOf(id)) |-> RowsOf(id)[k].ShortFilter]
                 /\ Get(lw_filters, id) =
                      [k \in 1..Len(RowsOf(id)) |-> RowsOf(id)[k].LongFilter]
            ELSE Get(filters, id) =
                      [k \in 1..Len(RowsOf(id)) |-> RowsOf(id)[k].PupilWheel]

C7_HasParenthetical(l) ==
    \E i, j \in 1..Len(l) : i + 1 < j /\ l[i] = " " /\ l[i + 1] = "(" /\ l[j] = ")"

C7_ParenStart(l) ==
    CHOOSE i \in 1..Len(l) :
        /\ \E j \in 1..Len(l) : i + 1 < j /\ l[i] = " " /\ l[i + 1] = "(" /\ l[j] = ")"
        /\ \A h \in 1..(i - 1) :
             ~(\E j \in 1..Len(l) : h + 1 < j /\ l[h] = " " /\ l[h + 1] = "(" /\ l[j] = ")")

\* C7: a label with a parenthetical (a space, "(", and a later ")") gives
\* the text before the start of that parenthetical; any other label is
\* passed through unchanged.
C7_NameDerivation ==
    pc = "name_done"
    => name = IF C7_HasParenthetical(label)
              THEN SubSeq(label, 1, C7_ParenStart(label) - 1)
              ELSE label

====
